---- MODULE Spec2Model ----
(***************************************************************************)
(* Model of render_proxy.py: a Flask reverse proxy whose upstream          *)
(* ("tunnel") URL is a module-level global that POST /tunnel_update        *)
(* replaces at run time.  Handlers run on concurrent worker threads; one   *)
(* action of the model is one handler step between two accesses of the     *)
(* shared globals.                                                         *)
(*                                                                         *)
(* Text is a sequence of tokens: the token "/" is the slash character and  *)
(* every other token is a run of characters holding no slash.  The token   *)
(* "tunnel_url" is the only one that holds the text tunnel_url.  The token *)
(* "xFF" of a query string is a byte that is not valid UTF-8.              *)
(***************************************************************************)
EXTENDS Integers, Sequences, FiniteSets, TLC

VARIABLES
    CLOUDFLARED_TUNNEL_URL, \* line 20: read once from the environment
    current_tunnel_url,     \* line 24: the global the handlers share
    tunnel_update_time,     \* line 25: None, or the time of the last update
    now,                    \* the wall clock datetime.now() reads
    upd,                    \* the thread serving POST /tunnel_update
    st,                     \* the thread serving GET /status
    hl,                     \* the thread serving GET /health
    fw,                     \* the thread serving every other path
    committed               \* history: URL of the last completed update, if no write followed it

vars == <<CLOUDFLARED_TUNNEL_URL, current_tunnel_url, tunnel_update_time, now,
          upd, st, hl, fw, committed>>

\* The number of updates a run may apply (each takes one clock reading).
MaxClock == 2

\* Python's None for tunnel_update_time; clock readings start at 1.
None == 0

-----------------------------------------------------------------------------
(* Python values.  Every value is a record of one shape so that any two     *)
(* can be compared: kind, s (text of a str), n (value of a number).         *)

PyStr(s) == [kind |-> "str", s |-> s, n |-> 0]
PyNum(n) == [kind |-> "number", s |-> <<>>, n |-> n]
PyNone == [kind |-> "None", s |-> <<>>, n |-> 0]
\* "no value": a history marker, not a Python value.
NoVal == [kind |-> "absent", s |-> <<>>, n |-> 0]

\* The environment's values of CLOUDFLARED_TUNNEL_URL (a URL, with or without
\* a trailing slash).
EnvDefaults == { PyStr(<<"http:", "/", "/", "localhost:5000">>),
                 PyStr(<<"http:", "/", "/", "d", "/">>) }

\* The values a JSON body can give the key tunnel_url.
TunnelUrlValues ==
    { PyStr(<<"http:", "/", "/", "u">>),
      PyStr(<<"http:", "/", "/", "v", "/", "/">>),
      PyStr(<<>>),
      PyNone,
      PyNum(5) }

\* The decoded JSON body of a POST /tunnel_update, or what stands for it:
\* kind "absent" (no JSON body), "malformed" (JSON content type, unparsable),
\* or a JSON value: "object" (keys, and the value of tunnel_url when it is a
\* key), "str" (s), "number" (n), "list" (items), "None" (null).
Body(kind, keys, url, s, n, items) ==
    [kind |-> kind, keys |-> keys, tunnel_url |-> url, s |-> s, n |-> n, items |-> items]

ObjectBodies ==
    { Body("object", {}, NoVal, <<>>, 0, <<>>),
      Body("object", {"source"}, NoVal, <<>>, 0, <<>>) }
    \cup { Body("object", {"tunnel_url"}, u, <<>>, 0, <<>>) : u \in TunnelUrlValues }
    \cup { Body("object", {"tunnel_url", "source"}, PyStr(<<"http:", "/", "/", "u">>), <<>>, 0, <<>>) }

OtherBodies ==
    { Body("absent", {}, NoVal, <<>>, 0, <<>>),
      Body("malformed", {}, NoVal, <<>>, 0, <<>>),
      Body("None", {}, NoVal, <<>>, 0, <<>>),
      Body("str", {}, NoVal, <<>>, 0, <<>>),
      Body("str", {}, NoVal, <<"abc">>, 0, <<>>),
      Body("str", {}, NoVal, <<"my ", "tunnel_url">>, 0, <<>>),
      Body("number", {}, NoVal, <<>>, 0, <<>>),
      Body("number", {}, NoVal, <<>>, 5, <<>>),
      Body("list", {}, NoVal, <<>>, 0, <<>>),
      Body("list", {}, NoVal, <<>>, 0, <<"a">>),
      Body("list", {}, NoVal, <<>>, 0, <<"tunnel_url">>) }

Bodies == ObjectBodies \cup OtherBodies

-----------------------------------------------------------------------------
(* POST /tunnel_update, lines 131-164.                                      *)

\* request.get_json(), line 137: the possible results for a body.  A body
\* with no JSON content type gives None on older Flask releases and raises
\* UnsupportedMediaType on newer ones; the repository pins no release.
GetJson(body) ==
    CASE body.kind = "absent" -> { [raised |-> FALSE, data |-> Body("None", {}, NoVal, <<>>, 0, <<>>)],
                                   [raised |-> TRUE, data |-> body] }
      [] body.kind = "malformed" -> { [raised |-> TRUE, data |-> body] }
      [] OTHER -> { [raised |-> FALSE, data |-> body] }

\* Python truth value of the decoded body: `not data`, line 139.
Falsy(data) ==
    \/ data.kind = "None"
    \/ data.kind = "object" /\ data.keys = {}
    \/ data.kind = "str" /\ data.s = <<>>
    \/ data.kind = "number" /\ data.n = 0
    \/ data.kind = "list" /\ data.items = <<>>

\* `'tunnel_url' in data`, line 139: "yes", "no", or "TypeError" (a number
\* is not iterable).  On a str it is a substring test, on a list membership.
Contains(data) ==
    CASE data.kind = "object" -> IF "tunnel_url" \in data.keys THEN "yes" ELSE "no"
      [] data.kind = "str" ->
            IF \E i \in 1..Len(data.s) : data.s[i] = "tunnel_url" THEN "yes" ELSE "no"
      [] data.kind = "list" ->
            IF \E i \in 1..Len(data.items) : data.items[i] = "tunnel_url" THEN "yes" ELSE "no"
      [] OTHER -> "TypeError"

\* Lines 136-142 and 162-164: what the handler decides before it touches the
\* globals.  status 0 stands for "go on to the update".
Validate(r) ==
    IF r.raised THEN 500
    ELSE IF Falsy(r.data) THEN 400
    ELSE IF Contains(r.data) = "TypeError" THEN 500
    ELSE IF Contains(r.data) = "no" THEN 400
    ELSE IF r.data.kind # "object" THEN 500   \* data['tunnel_url'] on a str or list: TypeError
    ELSE 0

\* Whether the body is a JSON object with the key tunnel_url.
HasTunnelUrl(body) == body.kind = "object" /\ "tunnel_url" \in body.keys

\* The thread keeps the kind of body it was sent, whether it held the field,
\* the status it answered (0: none yet) and new_tunnel_url.
UpdIdle == [pc |-> "idle", kind |-> "", has_field |-> FALSE, status |-> 0, new_url |-> NoVal]

\* Lines 136-148: parse, validate, then old_url = current_tunnel_url and
\* current_tunnel_url = new_tunnel_url.
TunnelUpdateBegin(body) ==
    /\ upd.pc \in {"idle", "done"}
    /\ now <= MaxClock
    /\ \E r \in GetJson(body) :
         LET v == Validate(r) IN
         IF v # 0
         THEN /\ upd' = [pc |-> "done", kind |-> body.kind, has_field |-> HasTunnelUrl(body),
                         status |-> v, new_url |-> NoVal]
              /\ UNCHANGED <<current_tunnel_url, committed>>
         ELSE /\ upd' = [pc |-> "set_time", kind |-> body.kind,
                         has_field |-> HasTunnelUrl(body), status |-> 0,
                         new_url |-> r.data.tunnel_url]
              /\ current_tunnel_url' = r.data.tunnel_url
              /\ committed' = NoVal
    /\ UNCHANGED <<CLOUDFLARED_TUNNEL_URL, tunnel_update_time, now, st, hl, fw>>

\* Lines 149-160: tunnel_update_time = datetime.now(), then the 200 response.
TunnelUpdateSetTime ==
    /\ upd.pc = "set_time"
    /\ tunnel_update_time' = now
    /\ now' = now + 1
    /\ upd' = [upd EXCEPT !.pc = "done", !.status = 200]
    /\ committed' = upd.new_url
    /\ UNCHANGED <<CLOUDFLARED_TUNNEL_URL, current_tunnel_url, st, hl, fw>>

-----------------------------------------------------------------------------
(* GET /status, lines 166-176.  The dict display reads the two globals one  *)
(* after the other.                                                         *)

\* The number of assignments made so far to current_tunnel_url (line 148)
\* and to tunnel_update_time (line 149).  The k-th update installs the pair
\* (its tunnel_url, clock reading k); None is the time of "update 0".
UrlWrites == IF upd.pc = "set_time" THEN now ELSE now - 1
TimeWrites == now - 1

\* url_of: history, the update whose URL the read returned.
StIdle == [pc |-> "idle", url |-> NoVal, url_of |-> 0, time |-> None, expect |-> NoVal]

\* Line 172.
StatusReadUrl ==
    /\ st.pc \in {"idle", "done"}
    /\ st' = [pc |-> "read_url", url |-> current_tunnel_url, url_of |-> UrlWrites,
              time |-> None, expect |-> committed]
    /\ UNCHANGED <<CLOUDFLARED_TUNNEL_URL, current_tunnel_url, tunnel_update_time, now,
                   upd, hl, fw, committed>>

\* Lines 173-176.
StatusReadTime ==
    /\ st.pc = "read_url"
    /\ st' = [st EXCEPT !.pc = "done", !.time = tunnel_update_time]
    /\ UNCHANGED <<CLOUDFLARED_TUNNEL_URL, current_tunnel_url, tunnel_update_time, now,
                   upd, hl, fw, committed>>

-----------------------------------------------------------------------------
(* GET /health, lines 118-129.                                              *)

\* What an upstream call comes back with: a response (exc = "none") or an
\* exception of the client library, named by its class.
Reply(exc, status_code, headers, content) ==
    [exc |-> exc, status_code |-> status_code, headers |-> headers, content |-> content]

\* Lines 124-129: the body's "tunnel" field and the status of the answer.
HealthFalsePositive(reply) ==
    IF reply.exc # "none" THEN [tunnel |-> "not_accessible", status |-> 503]
    ELSE IF reply.status_code < 400 THEN [tunnel |-> "connected", status |-> 200]
    ELSE [tunnel |-> "responding_with_error", status |-> 503]

HealthResponse(reply) ==
    IF reply.exc # "none" THEN [tunnel |-> "not_accessible", status |-> 503]
    ELSE IF reply.status_code = 200 THEN [tunnel |-> "connected", status |-> 200]
    ELSE [tunnel |-> "responding_with_error", status |-> 503]

HlIdle == [pc |-> "idle", probe_url |-> NoVal, expect |-> NoVal,
           reply |-> Reply("none", 0, {}, ""), tunnel |-> "", status |-> 0]

\* Line 123: requests.get(CLOUDFLARED_TUNNEL_URL, timeout=5) is sent.
HealthProbe ==
    /\ hl.pc \in {"idle", "done"}
    /\ hl' = [HlIdle EXCEPT !.pc = "probing", !.probe_url = CLOUDFLARED_TUNNEL_URL,
                            !.expect = committed]
    /\ UNCHANGED <<CLOUDFLARED_TUNNEL_URL, current_tunnel_url, tunnel_update_time, now,
                   upd, st, fw, committed>>

\* Lines 123-129: the probe comes back and the handler answers.
HealthReturn(reply) ==
    /\ hl.pc = "probing"
    /\ hl' = [hl EXCEPT !.pc = "done", !.reply = reply,
                        !.tunnel = HealthResponse(reply).tunnel,
                        !.status = HealthResponse(reply).status]
    /\ UNCHANGED <<CLOUDFLARED_TUNNEL_URL, current_tunnel_url, tunnel_update_time, now,
                   upd, st, fw, committed>>

-----------------------------------------------------------------------------
(* The forwarding handler, lines 27-116.                                    *)

\* Lines 27-28: app.route without methods= registers the view for GET only;
\* Flask adds HEAD, and answers OPTIONS itself without calling the view.
Route(method) ==
    CASE method \in {"GET", "HEAD"} -> "view"
      [] method = "OPTIONS" -> "automatic_options"
      [] OTHER -> "method_not_allowed"

\* str.rstrip('/'), line 33: every trailing slash is removed.
RStripOne(s) ==
    IF s # <<>> /\ s[Len(s)] = "/" THEN SubSeq(s, 1, Len(s) - 1) ELSE s

RECURSIVE RStrip(_)
RStrip(s) ==
    IF s # <<>> /\ s[Len(s)] = "/" THEN RStrip(SubSeq(s, 1, Len(s) - 1)) ELSE s

\* bytes.decode('utf-8'), line 36: raises on a byte that is not UTF-8,
\* otherwise gives the same characters.
DecodeRaises(query) == \E i \in 1..Len(query) : query[i] = "xFF"

\* Lines 33-38.
TargetUrl(upstream, path, query_string) ==
    LET base == RStrip(upstream) \o <<"/">> \o path
    IN IF query_string # <<>> THEN base \o <<"?">> \o query_string ELSE base

IsJson(content_type) == content_type \in {"application/json", "application/json; charset=utf-8"}
IsMultipart(content_type) == content_type = "multipart/form-data; boundary=x"

\* Lines 54-79: the client call chosen for the request: its method, what it
\* carries as body, and whether building it raised (get_json on a body that
\* does not parse).
Dispatch(req) ==
    IF req.method = "GET" THEN [raised |-> FALSE, method |-> "GET", body |-> "none"]
    ELSE IF req.method = "POST" THEN
        IF IsJson(req.content_type)
        THEN [raised |-> req.body = "{bad", method |-> "POST", body |-> "json"]
        ELSE IF IsMultipart(req.content_type)
        THEN [raised |-> FALSE, method |-> "POST", body |-> "form+files"]
        ELSE [raised |-> FALSE, method |-> "POST", body |-> "raw"]
    ELSE IF req.method = "PUT" THEN [raised |-> FALSE, method |-> "PUT", body |-> "raw"]
    ELSE IF req.method = "DELETE" THEN [raised |-> FALSE, method |-> "DELETE", body |-> "none"]
    ELSE [raised |-> FALSE, method |-> req.method, body |-> "raw"]

\* The classes an exception of the client library is an instance of
\* (requests.exceptions: ConnectTimeout derives from ConnectionError and Timeout).
ExcClasses(exc) ==
    CASE exc = "ConnectionError" -> {"ConnectionError", "RequestException", "Exception"}
      [] exc = "ConnectTimeout" -> {"ConnectTimeout", "ConnectionError", "Timeout",
                                    "RequestException", "Exception"}
      [] exc = "ReadTimeout" -> {"ReadTimeout", "Timeout", "RequestException", "Exception"}
      [] exc = "TooManyRedirects" -> {"TooManyRedirects", "RequestException", "Exception"}
      [] OTHER -> {"Exception"}

\* Lines 96-116: the first except clause the exception matches.
ExceptStatus(exc) ==
    IF "ConnectionError" \in ExcClasses(exc) THEN 503
    ELSE IF "Timeout" \in ExcClasses(exc) THEN 504
    ELSE 500

\* Header names compare without case in the response's header list.
Lower(name) ==
    CASE name \in {"Transfer-Encoding", "transfer-encoding"} -> "transfer-encoding"
      [] name \in {"Content-Encoding", "CONTENT-ENCODING"} -> "content-encoding"
      [] name \in {"Content-Type"} -> "content-type"
      [] OTHER -> name

HasHeader(headers, name) == \E h \in headers : Lower(h[1]) = Lower(name)
DelHeader(headers, name) == { h \in headers : Lower(h[1]) # Lower(name) }

\* Lines 82-86: Response(content, status=, headers=dict(...)).  The
\* constructor sets Content-Type to the default mimetype when the headers
\* it is given hold none.
NewResponse(content, status, headers) ==
    [content |-> content, status |-> status,
     headers |-> IF HasHeader(headers, "Content-Type") THEN headers
                 ELSE headers \cup { <<"Content-Type", "text/html; charset=utf-8">> }]

\* Lines 82-94.
ProxyResponse(reply) ==
    LET r0 == NewResponse(reply.content, reply.status_code, reply.headers)
        h1 == IF HasHeader(r0.headers, "Transfer-Encoding")
              THEN DelHeader(r0.headers, "Transfer-Encoding") ELSE r0.headers
        h2 == IF HasHeader(h1, "Content-Encoding")
              THEN DelHeader(h1, "Content-Encoding") ELSE h1
    IN [r0 EXCEPT !.headers = h2]

Request(method, path, query, content_type, body) ==
    [method |-> method, path |-> path, query |-> query,
     content_type |-> content_type, body |-> body]

NoCall == [method |-> "", url |-> <<>>, body |-> ""]

FwIdle == [pc |-> "idle", req |-> Request("", <<>>, <<>>, "", ""), up |-> NoVal,
           expect |-> NoVal, built |-> FALSE, target |-> <<>>, calls |-> 0, call |-> NoCall,
           reply |-> Reply("none", 0, {}, ""), status |-> 0, headers |-> {}, content |-> "",
           named |-> NoVal]

\* Lines 27-28: a method the route does not carry is answered 405 by the
\* framework; the view is not called.
RouteMethodNotAllowed(req) ==
    /\ fw.pc \in {"idle", "done"}
    /\ Route(req.method) = "method_not_allowed"
    /\ fw' = [FwIdle EXCEPT !.pc = "done", !.req = req, !.status = 405]
    /\ UNCHANGED <<CLOUDFLARED_TUNNEL_URL, current_tunnel_url, tunnel_update_time, now,
                   upd, st, hl, committed>>

\* Lines 27-28: OPTIONS is answered 200 by the framework.
RouteAutomaticOptions(req) ==
    /\ fw.pc \in {"idle", "done"}
    /\ Route(req.method) = "automatic_options"
    /\ fw' = [FwIdle EXCEPT !.pc = "done", !.req = req, !.status = 200]
    /\ UNCHANGED <<CLOUDFLARED_TUNNEL_URL, current_tunnel_url, tunnel_update_time, now,
                   upd, st, hl, committed>>

\* Lines 33-36: None and numbers have no rstrip (AttributeError); else the
\* query string failed to decode.
FirstError(up, req) == IF up.kind # "str" THEN "AttributeError" ELSE "UnicodeDecodeError"

\* Lines 31-79: the view reads current_tunnel_url, builds the target URL and
\* sends the client call; an exception on the way goes to line 110.
ProxyStart(req) ==
    /\ fw.pc \in {"idle", "done"}
    /\ Route(req.method) = "view"
    /\ LET up == current_tunnel_url
           f0 == [FwIdle EXCEPT !.req = req, !.up = up, !.expect = committed]
       IN IF up.kind # "str" \/ DecodeRaises(req.query)
          THEN fw' = [f0 EXCEPT !.pc = "done", !.reply = Reply(FirstError(up, req), 0, {}, ""),
                                !.status = ExceptStatus(FirstError(up, req))]
          ELSE LET target == TargetUrl(up.s, req.path, req.query)
                   d == Dispatch(req)
               IN IF d.raised
                  THEN fw' = [f0 EXCEPT !.pc = "done", !.built = TRUE, !.target = target,
                                        !.reply = Reply("BadRequest", 0, {}, ""),
                                        !.status = ExceptStatus("BadRequest")]
                  ELSE fw' = [f0 EXCEPT !.pc = "calling", !.built = TRUE, !.target = target,
                                        !.calls = 1,
                                        !.call = [method |-> d.method, url |-> target,
                                                  body |-> d.body]]
    /\ UNCHANGED <<CLOUDFLARED_TUNNEL_URL, current_tunnel_url, tunnel_update_time, now,
                   upd, st, hl, committed>>

\* Lines 81-116: the client call comes back.  A failure's text names
\* current_tunnel_url as it is now (lines 99 and 106).
ProxyReturn(reply) ==
    /\ fw.pc = "calling"
    /\ IF reply.exc = "none"
       THEN LET r == ProxyResponse(reply)
            IN fw' = [fw EXCEPT !.pc = "done", !.reply = reply, !.status = r.status,
                                !.headers = r.headers, !.content = r.content]
       ELSE fw' = [fw EXCEPT !.pc = "done", !.reply = reply,
                             !.status = ExceptStatus(reply.exc),
                             !.named = IF ExceptStatus(reply.exc) \in {503, 504}
                                       THEN current_tunnel_url ELSE NoVal]
    /\ UNCHANGED <<CLOUDFLARED_TUNNEL_URL, current_tunnel_url, tunnel_update_time, now,
                   upd, st, hl, committed>>

-----------------------------------------------------------------------------------------------------------------------------------------------------
(* Inputs.                                                                  *)

Methods == {"GET", "HEAD", "OPTIONS", "POST", "PUT", "DELETE", "PATCH"}

ContentTypes == {"none", "application/json", "multipart/form-data; boundary=x",
                 "application/x-www-form-urlencoded"}

\* Paths the catch-all route matches (none starts with a slash), other than
\* health, status and tunnel_update.
Paths == { <<>>, <<"foo">>, <<"foo", "/", "bar">>, <<"foo", "/">> }

\* Raw query strings.
Queries == { <<>>, <<"x=1">>, <<"a=1&b=?">>, <<"q=", "xFF">> }

\* GET requests of every path and query.
UrlRequests == { Request("GET", p, q, "none", "") : p \in Paths, q \in Queries }

\* Requests of every method; the content type and the body vary where the
\* view looks at them (POST).
MethodRequests ==
    { Request(m, <<"foo">>, <<"x=1">>, "none", "") : m \in Methods \ {"POST"} }
    \cup { Request("POST", <<"foo">>, <<>>, c, b) : c \in ContentTypes, b \in {"{}", "{bad"} }

PlainRequests == { Request("GET", <<"foo">>, <<"x=1">>, "none", ""),
                   Request("OPTIONS", <<"foo">>, <<>>, "none", ""),
                   Request("POST", <<"foo">>, <<>>, "application/json", "{}") }

\* Header lists of an upstream response: names are unique without case.
HeaderChoices ==
    [ te : {"", "Transfer-Encoding", "transfer-encoding"},
      ce : {"", "Content-Encoding", "CONTENT-ENCODING"},
      ct : {"", "Content-Type"},
      x  : {"", "X-Served-By"} ]

HeadersOf(c) ==
    { <<n, "v">> : n \in {c.te, c.ce, c.ct, c.x} \ {""} }

HeaderLists == { HeadersOf(c) : c \in HeaderChoices }

Exceptions == {"ConnectionError", "ConnectTimeout", "ReadTimeout", "TooManyRedirects",
               "ValueError"}

Replies ==
    { Reply("none", 200, h, "body") : h \in HeaderLists }
    \cup { Reply("none", 404, {<<"Content-Type", "v">>}, "not found") }
    \cup { Reply(e, 0, {}, "") : e \in Exceptions }

HealthReplies ==
    { Reply("none", s, {<<"Content-Type", "v">>}, "body") : s \in {200, 204, 404, 500} }
    \cup { Reply(e, 0, {}, "") : e \in {"ConnectionError", "ReadTimeout", "ValueError"} }

PlainReplies ==
    { Reply("none", 200, {<<"Content-Type", "v">>}, "body"),
      Reply("ConnectionError", 0, {}, ""),
      Reply("ReadTimeout", 0, {}, "") }

\* Bodies of an update that carry a tunnel_url.
UrlBodies == { b \in ObjectBodies : "tunnel_url" \in b.keys }

PlainBodies ==
    { Body("object", {}, NoVal, <<>>, 0, <<>>),
      Body("object", {"tunnel_url"}, PyStr(<<"http:", "/", "/", "u">>), <<>>, 0, <<>>),
      Body("object", {"tunnel_url"}, PyStr(<<"http:", "/", "/", "v", "/", "/">>), <<>>, 0, <<>>) }

-----------------------------------------------------------------------------
(* The server: all four handlers, running concurrently.                     *)

Init ==
    /\ CLOUDFLARED_TUNNEL_URL \in EnvDefaults
    /\ current_tunnel_url = CLOUDFLARED_TUNNEL_URL
    /\ tunnel_update_time = None
    /\ now = 1
    /\ upd = UpdIdle
    /\ st = StIdle
    /\ hl = HlIdle
    /\ fw = FwIdle
    /\ committed = NoVal

Next ==
    \/ \E body \in PlainBodies : TunnelUpdateBegin(body)
    \/ TunnelUpdateSetTime
    \/ StatusReadUrl
    \/ StatusReadTime
    \/ HealthProbe
    \/ \E reply \in HealthReplies : HealthReturn(reply)
    \/ \E req \in PlainRequests : RouteMethodNotAllowed(req)
    \/ \E req \in PlainRequests : RouteAutomaticOptions(req)
    \/ \E req \in PlainRequests : ProxyStart(req)
    \/ \E reply \in PlainReplies : ProxyReturn(reply)

Spec == Init /\ [][Next]_vars

(* /tunnel_update under every kind of body, with /status reading beside it. *)
NextUpdate ==
    \/ \E body \in Bodies : TunnelUpdateBegin(body)
    \/ TunnelUpdateSetTime
    \/ StatusReadUrl
    \/ StatusReadTime

SpecUpdate == Init /\ [][NextUpdate]_vars

(* The forwarding route under every upstream value, path and query string.  *)
NextUrl ==
    \/ \E body \in UrlBodies : TunnelUpdateBegin(body)
    \/ TunnelUpdateSetTime
    \/ \E req \in UrlRequests : ProxyStart(req)
    \/ \E reply \in PlainReplies : ProxyReturn(reply)

SpecUrl == Init /\ [][NextUrl]_vars

(* The forwarding route under every method and every upstream reply.        *)
NextFwd ==
    \/ \E body \in PlainBodies : TunnelUpdateBegin(body)
    \/ TunnelUpdateSetTime
    \/ \E req \in MethodRequests : RouteMethodNotAllowed(req)
    \/ \E req \in MethodRequests : RouteAutomaticOptions(req)
    \/ \E req \in MethodRequests : ProxyStart(req)
    \/ \E reply \in Replies : ProxyReturn(reply)

SpecFwd == Init /\ [][NextFwd]_vars

-----------------------------------------------------------------------------
(* Properties.                                                              *)

\* C1: a read started after an update to U has completed, and before any
\* later update, observes U: the forward builds its target from U, /status
\* reports U, and /health probes U.
C1_ReadsObserveUpdate ==
    /\ (st.pc # "idle" /\ st.expect # NoVal) => st.url = st.expect
    /\ (fw.pc # "idle" /\ fw.up # NoVal /\ fw.expect # NoVal) => fw.up = fw.expect
    /\ (hl.pc # "idle" /\ hl.expect # NoVal) => hl.probe_url = hl.expect

\* The clock reading the k-th update stored; update 0 is process start.
TimeOf(k) == IF k = 0 THEN None ELSE k

\* C2: the (current_tunnel_url, tunnel_updated_at) pair a /status read
\* reports is the pair one update installed (or the initial pair), never the
\* URL of one update with the time of another.
C2_StatusPairAtomic ==
    st.pc = "done" => st.time = TimeOf(st.url_of)

\* C3: a /tunnel_update whose body has no tunnel_url field answers 400 and
\* leaves current_tunnel_url and tunnel_update_time as they were.
C3_MissingFieldIs400 ==
    [][ (upd' # upd /\ upd'.pc = "done" /\ ~upd'.has_field)
          => /\ upd'.status = 400
             /\ current_tunnel_url' = current_tunnel_url
             /\ tunnel_update_time' = tunnel_update_time ]_vars

\* C4: current_tunnel_url is always a non-empty string.
C4_UpstreamNonEmptyString ==
    current_tunnel_url.kind = "str" /\ current_tunnel_url.s # <<>>

\* The body the dispatch table of section 4.1 gives a request.
TableBody(req) ==
    CASE req.method \in {"GET", "DELETE"} -> "none"
      [] req.method = "POST" /\ req.content_type = "application/json" -> "json"
      [] req.method = "POST" /\ req.content_type = "multipart/form-data; boundary=x" -> "form+files"
      [] OTHER -> "raw"

\* C5: a request of any method to a forwarded path makes exactly one
\* upstream call, with the same method and the body of the dispatch table.
C5_EveryMethodForwarded ==
    fw.pc = "done" =>
        /\ fw.calls = 1
        /\ fw.call.method = fw.req.method
        /\ fw.call.body = TableBody(fw.req)

\* C6: a failed upstream call is answered once: 504 for every timeout
\* (connect timeouts included), 503 for a connection failure, 500 for any
\* other exception; no second call is made.
C6_FailureStatus ==
    (fw.pc = "done" /\ fw.reply.exc # "none") =>
        /\ fw.status = CASE fw.reply.exc \in {"ReadTimeout", "ConnectTimeout"} -> 504
                         [] fw.reply.exc = "ConnectionError" -> 503
                         [] OTHER -> 500
        /\ fw.calls <= 1

\* C7: the target URL is the upstream without its trailing slashes, one
\* slash, the path, and "?" with the query string when there is one.
C7_TargetUrl ==
    fw.built =>
        \E k \in 0..Len(fw.up.s) :
            /\ k > 0 => fw.up.s[k] # "/"
            /\ \A i \in (k + 1)..Len(fw.up.s) : fw.up.s[i] = "/"
            /\ fw.target = SubSeq(fw.up.s, 1, k) \o <<"/">> \o fw.req.path
                           \o (IF fw.req.query = <<>> THEN <<>> ELSE <<"?">> \o fw.req.query)

C7_Witness ==
    /\ fw.built
    /\ fw.up.s = <<"http:", "/", "/", "v", "/", "/">>
    /\ fw.req.path = <<"foo", "/", "bar">>
    /\ fw.req.query = <<"a=1&b=?">>
    /\ fw.target = <<"http:", "/", "/", "v", "/", "foo", "/", "bar", "?", "a=1&b=?">>

\* C8: /health answers 200 healthy/connected exactly when the probe got
\* status 200, 503 responding_with_error for any other status, 503
\* not_accessible for any exception; it never changes the two globals.
C8_HealthOutcome ==
    [][ hl' # hl =>
          /\ current_tunnel_url' = current_tunnel_url
          /\ tunnel_update_time' = tunnel_update_time
          /\ hl'.pc = "done" =>
               /\ (hl'.reply.exc = "none" /\ hl'.reply.status_code = 200)
                    => (hl'.status = 200 /\ hl'.tunnel = "connected")
               /\ (hl'.reply.exc = "none" /\ hl'.reply.status_code # 200)
                    => (hl'.status = 503 /\ hl'.tunnel = "responding_with_error")
               /\ hl'.reply.exc # "none"
                    => (hl'.status = 503 /\ hl'.tunnel = "not_accessible") ]_vars

C8_Witness ==
    /\ hl.pc = "done"
    /\ hl.reply.exc = "none" /\ hl.reply.status_code = 204
    /\ hl.status = 503 /\ hl.tunnel = "responding_with_error"
    /\ current_tunnel_url # CLOUDFLARED_TUNNEL_URL

Hop(name) == Lower(name) \in {"transfer-encoding", "content-encoding"}

\* C9: a relayed response has the upstream's status and body, and exactly
\* the upstream's headers other than Transfer-Encoding and Content-Encoding.
C9_RelayedHeaders ==
    (fw.pc = "done" /\ fw.calls = 1 /\ fw.reply.exc = "none") =>
        /\ fw.status = fw.reply.status_code
        /\ fw.content = fw.reply.content
        /\ fw.headers = { h \in fw.reply.headers : ~Hop(h[1]) }
        /\ \A h \in fw.headers : ~Hop(h[1])

\* C10: a forward's failure text names the URL its call was sent to, the
\* one read when the forward started, whatever update completed meanwhile.
C10_FailureNamesCalledUrl ==
    (fw.pc = "done" /\ fw.calls = 1) =>
        /\ fw.call.url = TargetUrl(fw.up.s, fw.req.path, fw.req.query)
        /\ fw.status \in {503, 504} => fw.named = fw.up

====
